---- MODULE Spec2Model ----
(***************************************************************************)
(* Model of allergens/views.py (SafeChoice): the allergen reconciler       *)
(* detect_allergens_from_ingredients and the request handler upload_base64 *)
(* with its collaborators.  Collaborators whose code is outside the        *)
(* repository (BERT, TF-IDF, the classifier, rapidfuzz, the catalog, the   *)
(* LLM, XGBoost) are nondeterministic: every answer and every exception.   *)
(***************************************************************************)
EXTENDS Integers, Sequences, FiniteSets, TLC

VARIABLES
    \* ---- one call of detect_allergens_from_ingredients (SpecDetect) ----
    user_allergens,      \* the raw user allergen list (argument)
    predicted_binary,    \* what model.predict answers for the ingredient text
    similarity,          \* what cosine_similarity answers, per user allergen
    fuzz_ratio,          \* what fuzz.ratio answers, per (allergen, label)
    fault,               \* the collaborator that raises when called, or "none"
    detect_call,         \* the call's return value (or propagated exception)
    \* ---- upload_base64 requests (Spec) ----
    request,             \* per request: the HTTP request received
    pc,                  \* per request: position in upload_base64
    local,               \* per request: the handler's local variables
    response,            \* per request: the JsonResponse returned
    trace,               \* per request: the collaborator calls made, in order
    uploaded_image,      \* contents of ./uploaded_images/uploaded_image.jpg
    cropped_image        \* contents of ./uploads/cropped_image.jpg

detect_vars == <<user_allergens, predicted_binary, similarity, fuzz_ratio,
                 fault, detect_call>>
request_vars == <<request, pc, local, response, trace, uploaded_image,
                  cropped_image>>
vars == <<user_allergens, predicted_binary, similarity, fuzz_ratio, fault,
          detect_call, request, pc, local, response, trace, uploaded_image,
          cropped_image>>

Range(s) == {s[i] : i \in DOMAIN s}

(***************************************************************************)
(* Bounds                                                                  *)
(***************************************************************************)
\* longest user allergen list drawn for a call
MaxUser == 2

SeqsUpTo(S, n) == UNION {[1..k -> S] : k \in 0..n}

(***************************************************************************)
(* normalize_allergen (lines 99-102)                                       *)
(***************************************************************************)
\* the raw allergen strings user lists are drawn from
UserRaw == {"Milk", "milk", "nuts"}

\* mlb.classes_: the label binarizer's classes, in its order
MlbClasses == <<"Milk", "Soy">>

\* str.lower on the strings of the model
Lower(a) ==
    CASE a = "Milk" -> "milk"
      [] a = "Soy"  -> "soy"
      [] OTHER      -> a

\* inflect's singular_noun answers False for a word that is not a plural
NotPlural == "<False>"

singular_noun(a) ==
    CASE a = "nuts"  -> "nut"
      [] a = "milks" -> "milk"
      [] OTHER       -> NotPlural

normalize_allergen(allergen) ==
    LET lowered == Lower(allergen)
        singular == singular_noun(lowered)
    IN  IF singular # NotPlural THEN singular ELSE lowered

\* [normalize_allergen(a) for a in xs]
NormalizeAll(xs) == [i \in DOMAIN xs |-> normalize_allergen(xs[i])]

(***************************************************************************)
(* Collaborator answers.  Cosine similarity is in thousandths (0.8 = 800), *)
(* the fuzzy ratio is on rapidfuzz's scale 0..100.                         *)
(***************************************************************************)
SimilarityThreshold == 800
RatioThreshold == 85

SimilarityValues == {0, SimilarityThreshold, SimilarityThreshold + 1}
RatioValues == {0, RatioThreshold, RatioThreshold + 1}

\* the steps of the try body that call a collaborator, in execution order
Steps == <<"normalize_user", "join", "tfidf", "embed_text", "hstack",
           "embed_allergen", "predict", "inverse_transform",
           "normalize_predicted", "cosine", "fuzzy">>

Faults == Range(Steps) \cup {"none"}

\* mlb.inverse_transform(binary)[0]: the classes whose bit is set, in order
RECURSIVE inverse_transform(_, _)
inverse_transform(binary, i) ==
    IF i > Len(MlbClasses) THEN <<>>
    ELSE (IF binary[i] = 1 THEN <<MlbClasses[i]>> ELSE <<>>)
         \o inverse_transform(binary, i + 1)

(***************************************************************************)
(* detect_allergens_from_ingredients (lines 112-147)                       *)
(***************************************************************************)
\* line 132: if similarity > 0.8
SimilarityMatchInclusive(s) == s >= SimilarityThreshold
SimilarityMatch(s) == s > SimilarityThreshold

\* line 136: if fuzz.ratio(allergen, predicted_allergen) > 85
RatioMatch(r) == r > RatioThreshold

\* line 139: set(predicted_allergens).intersection(set(user_allergens))
NoIntersection(predicted, users) == {}
ExactIntersection(predicted, users) == Range(predicted) \cap Range(users)

\* lines 141-144: the success variant
SuccessAlwaysSafe(detected) ==
    [detected_allergens |-> detected, safe |-> TRUE]
SuccessResult(detected) ==
    [detected_allergens |-> detected, safe |-> ~(detected # {})]

\* lines 146-147: the error variant
ErrorResult(e) == [error |-> e, safe |-> FALSE]

\* lines 135-137: the inner loop over predicted_allergens
RECURSIVE FuzzyLoop(_, _, _, _)
FuzzyLoop(allergen, predicted, ratio, detected) ==
    IF predicted = <<>> THEN detected
    ELSE LET predicted_allergen == Head(predicted)
         IN  FuzzyLoop(allergen, Tail(predicted), ratio,
                 IF RatioMatch(ratio[<<allergen, predicted_allergen>>])
                 THEN detected \cup {predicted_allergen}
                 ELSE detected)

\* lines 130-137: the loop over zip(user_allergens, user_allergen_embeddings)
RECURSIVE AllergenLoop(_, _, _, _, _)
AllergenLoop(users, predicted, sim, ratio, detected) ==
    IF users = <<>> THEN detected
    ELSE LET allergen == Head(users)
             after_sim == IF SimilarityMatch(sim[allergen])
                          THEN detected \cup {allergen}
                          ELSE detected
         IN  AllergenLoop(Tail(users), predicted, sim, ratio,
                 FuzzyLoop(allergen, predicted, ratio, after_sim))

\* Which steps the try body executes when nothing raises: a comprehension or
\* loop over an empty list calls nothing.
StepRuns(step, users, predicted) ==
    CASE step \in {"normalize_user", "embed_allergen", "cosine"} ->
             users # <<>>
      [] step = "normalize_predicted" -> predicted # <<>>
      [] step = "fuzzy" -> users # <<>> /\ predicted # <<>>
      [] OTHER -> TRUE

\* The first step of the try body that raises, walking the steps in the
\* order the body executes them; 0 when the body completes.
RECURSIVE FirstRaise(_, _, _, _)
FirstRaise(i, broken, users, predicted) ==
    IF i > Len(Steps) THEN 0
    ELSE IF Steps[i] = broken /\ StepRuns(Steps[i], users, predicted) THEN i
    ELSE FirstRaise(i + 1, broken, users, predicted)

\* The try of line 114 opens before the first statement of the body, so the
\* except clause of line 146 handles a raise at any step.
TryAfterNormalize(raised_at) == raised_at > 1
InsideTry(raised_at) == raised_at >= 1

\* An exception the function lets through to its caller
Propagated(e) == [propagated |-> e]

detect_allergens_from_ingredients(raw_users, binary, sim, ratio, broken) ==
    LET users == NormalizeAll(raw_users)
        raw_predicted == inverse_transform(binary, 1)
        predicted == NormalizeAll(raw_predicted)
        raised_at == FirstRaise(1, broken, raw_users, raw_predicted)
        detected == AllergenLoop(users, predicted, sim, ratio, {})
                    \cup ExactIntersection(predicted, users)
    IN  IF raised_at > 0
        THEN IF InsideTry(raised_at)
             THEN ErrorResult(Steps[raised_at])
             ELSE Propagated(Steps[raised_at])
        ELSE SuccessResult(detected)

(***************************************************************************)
(* One call of detect_allergens_from_ingredients on drawn inputs           *)
(***************************************************************************)
NotCalled == [pending |-> TRUE]

Bits == [1..Len(MlbClasses) -> {0, 1}]

\* the normalized strings of a list
NormSet(xs) == Range(NormalizeAll(xs))

CallDetect ==
    /\ "pending" \in DOMAIN detect_call
    /\ detect_call' = detect_allergens_from_ingredients(
                          user_allergens, predicted_binary, similarity,
                          fuzz_ratio, fault)
    /\ UNCHANGED <<user_allergens, predicted_binary, similarity, fuzz_ratio,
                   fault, request_vars>>

(***************************************************************************)
(* Images, crop_image (lines 82-97), is_url (78-80), BarcodeReader (58-76) *)
(***************************************************************************)
UrlData == <<"h", "t", "t", "p", "s", ":", "/", "/", "q", "r">>
CodeA == <<"8", "9", "0", "1">>
CodeB == <<"4", "0", "0", "7">>

\* a file that is missing or is not an image
NoFile == [readable |-> FALSE, width |-> 0, height |-> 0, barcodes |-> <<>>]

Picture(w, h, marks) ==
    [readable |-> TRUE, width |-> w, height |-> h, barcodes |-> marks]

Mark(d, px, py) == [data |-> d, x |-> px, y |-> py]

ImgBlank == Picture(2, 2, <<>>)
ImgUrlOnly == Picture(2, 2, <<Mark(UrlData, 0, 0)>>)
ImgCodeA == Picture(4, 2, <<Mark(CodeA, 1, 0)>>)
ImgUrlAndCodeB == Picture(2, 4, <<Mark(UrlData, 0, 1), Mark(CodeB, 1, 2)>>)
ImgCodeAtEdge == Picture(4, 2, <<Mark(CodeA, 0, 1)>>)

Images == {NoFile, ImgBlank, ImgUrlOnly, ImgCodeA, ImgUrlAndCodeB,
           ImgCodeAtEdge}

Min(a, b) == IF a < b THEN a ELSE b

\* The centred square of the image; a barcode outside the box is cut away.
crop_image(img) ==
    LET box_size == Min(img.width, img.height)
        left == (img.width - box_size) \div 2
        top == (img.height - box_size) \div 2
        right == left + box_size
        bottom == top + box_size
        Inside(m) == /\ left <= m.x /\ m.x < right
                     /\ top <= m.y /\ m.y < bottom
        kept == SelectSeq(img.barcodes, Inside)
    IN  Picture(box_size, box_size,
                [i \in DOMAIN kept |->
                    Mark(kept[i].data, kept[i].x - left, kept[i].y - top)])

HasPrefix(data, p) == Len(data) >= Len(p) /\ SubSeq(data, 1, Len(p)) = p

\* re.match(r'^https?://', data) is not None
is_url(data) ==
    \/ HasPrefix(data, <<"h", "t", "t", "p", ":", "/", "/">>)
    \/ HasPrefix(data, <<"h", "t", "t", "p", "s", ":", "/", "/">>)

BarcodeNotDetected == <<"error:barcode not detected">>
PyNone == <<"None">>

BarcodeReader(img) ==
    LET detectedBarcodes == img.barcodes
        barcode_data == [i \in DOMAIN detectedBarcodes |->
                            detectedBarcodes[i].data]
        NotUrl(d) == ~is_url(d)
        non_url_data == SelectSeq(barcode_data, NotUrl)
    IN  IF detectedBarcodes = <<>> THEN BarcodeNotDetected
        ELSE IF non_url_data # <<>> THEN non_url_data[1]
        ELSE PyNone

(***************************************************************************)
(* mock_get_ingredients (lines 149-201)                                    *)
(***************************************************************************)
\* what the Open Food Facts call does: raise (network, HTTP status), or
\* answer a document with a status and a product
CatalogAnswers ==
    {[raises |-> TRUE, status |-> 0, has_brands |-> FALSE],
     [raises |-> FALSE, status |-> 0, has_brands |-> FALSE],
     [raises |-> FALSE, status |-> 1, has_brands |-> FALSE],
     [raises |-> FALSE, status |-> 1, has_brands |-> TRUE]}

NoneValue == [none |-> TRUE]

IsNone(v) == "none" \in DOMAIN v

mock_get_ingredients(barcode_data, answer) ==
    IF answer.raises THEN NoneValue                  \* lines 199-201
    ELSE IF answer.status # 1 THEN NoneValue         \* lines 157-158
    ELSE IF ~answer.has_brands THEN NoneValue        \* KeyError at line 194
    ELSE [ingredients |-> <<"milk", "sugar">>, name |-> barcode_data]

(***************************************************************************)
(* identify_harmful_ingredients (lines 203-269)                            *)
(***************************************************************************)
NarrativeKeys == {"hazard", "long", "recommend"}

\* lines 257-261 and 265-269
FallbackNarrative ==
    [type |-> "object", keys |-> NarrativeKeys, from |-> "fallback"]

\* what the chat completion does: raise, or answer a message whose content
\* is None or a text; json.loads of the text raises or yields a value
LLMReplies ==
    {[raises |-> TRUE, has_content |-> FALSE, parses |-> FALSE,
      value |-> FallbackNarrative],
     [raises |-> FALSE, has_content |-> FALSE, parses |-> FALSE,
      value |-> FallbackNarrative],
     [raises |-> FALSE, has_content |-> TRUE, parses |-> FALSE,
      value |-> FallbackNarrative],
     [raises |-> FALSE, has_content |-> TRUE, parses |-> TRUE,
      value |-> [type |-> "object", keys |-> NarrativeKeys, from |-> "llm"]],
     [raises |-> FALSE, has_content |-> TRUE, parses |-> TRUE,
      value |-> [type |-> "object", keys |-> {"answer"}, from |-> "llm"]],
     [raises |-> FALSE, has_content |-> TRUE, parses |-> TRUE,
      value |-> [type |-> "array", keys |-> {}, from |-> "llm"]]}

identify_harmful_ingredients(reply) ==
    IF reply.raises THEN FallbackNarrative           \* lines 263-269
    ELSE IF ~reply.has_content THEN FallbackNarrative \* None.strip(), line 250
    ELSE IF ~reply.parses THEN FallbackNarrative     \* lines 255-261
    ELSE reply.value                                 \* line 254

\* value[key] of Python: raises unless value is a dict holding key
CanSubscript(value, key) == value.type = "object" /\ key \in value.keys

(***************************************************************************)
(* upload_base64 (lines 271-398)                                           *)
(***************************************************************************)
Reqs == {"r1", "r2"}

\* A request: its method, whether its body is JSON, whether the JSON holds a
\* non-empty "image", whether that is Base64, and the bytes it decodes to.
HttpRequest(m, j, i, b, bytes) ==
    [method |-> m, json_ok |-> j, has_image |-> i, b64_ok |-> b,
     image_bytes |-> bytes]

RequestInputs ==
    {HttpRequest("GET", TRUE, TRUE, TRUE, ImgBlank),
     HttpRequest("POST", FALSE, FALSE, FALSE, NoFile),
     HttpRequest("POST", TRUE, FALSE, FALSE, NoFile),
     HttpRequest("POST", TRUE, TRUE, FALSE, NoFile)}
    \cup {HttpRequest("POST", TRUE, TRUE, TRUE, img) : img \in Images}

NoResponse == [pending |-> TRUE]

Responded(r) == "pending" \notin DOMAIN response[r]

\* lines 276-279
MethodNotAllowed ==
    [status_code |-> 405, error |-> "Invalid HTTP method. Use POST."]
\* lines 285-288
NoImageData == [status_code |-> 400, error |-> "No image data provided"]
\* lines 293-296
InvalidBase64 == [status_code |-> 400, error |-> "Invalid Base64 data"]
\* lines 306-309
BarcodeNotDetectedResponse ==
    [status_code |-> 400, status |-> "error",
     message |-> "Barcode not detected"]
\* lines 394-398: the handler's catch-all, whatever was raised
FailedResponse(e) ==
    [status_code |-> 400, error |-> "Failed to decode and save image",
     exception |-> e]

\* dict.get(key, default) on the detection result
Get(d, key, default) == IF key \in DOMAIN d THEN d[key] ELSE default

\* lines 374-392
SuccessResponse(l) ==
    [status_code |-> 200, status |-> "success",
     code |-> l.barcode_info,
     name |-> l.product.name,
     ingredients |-> l.product.ingredients,
     score |-> l.predictions,
     allergens |-> Get(l.allergen_detection_result, "detected_allergens", {}),
     safe |-> Get(l.allergen_detection_result, "safe", TRUE),
     hazard |-> "hazard",
     Long |-> "long",
     generated_text |-> l.gen_openai]

Unset == [unset |-> TRUE]

InitialLocals ==
    [barcode_info |-> PyNone, product |-> Unset, gen_openai |-> Unset,
     allergen_detection_result |-> Unset, predictions |-> 0]

\* line 327
HandlerAllergens == <<"milk">>

\* the collaborators that break while a request is served
HandlerFaults == {"none", "embed_text"}

\* what XG.predict does: raise, or answer a class
XGAnswers == {[raises |-> TRUE, value |-> 0], [raises |-> FALSE, value |-> 1]}

\* The order of the calls after the barcode is read (lines 311, 312, 328,
\* 333, 374): the step the handler takes after `step`.
OrderOfTheOverview(step) ==
    CASE step = "fetch_product"    -> "detect_allergens"
      [] step = "detect_allergens" -> "predict"
      [] step = "predict"          -> "hazard_narrative"
      [] step = "hazard_narrative" -> "merge"
StepAfter(step) ==
    CASE step = "fetch_product"    -> "hazard_narrative"
      [] step = "hazard_narrative" -> "detect_allergens"
      [] step = "detect_allergens" -> "predict"
      [] step = "predict"          -> "merge"

\* return JsonResponse(...): the handler's frame, and its locals, are gone
Respond(r, resp) ==
    /\ response' = [response EXCEPT ![r] = resp]
    /\ pc' = [pc EXCEPT ![r] = "done"]
    /\ local' = [local EXCEPT ![r] = InitialLocals]

Called(r, step) == trace' = [trace EXCEPT ![r] = Append(@, step)]

\* lines 274-300: validate the request and write uploaded_image.jpg
Receive(r) ==
    /\ pc[r] = "receive"
    /\ LET req == request[r] IN
       IF req.method # "POST" THEN
           Respond(r, MethodNotAllowed) /\ UNCHANGED uploaded_image
       ELSE IF ~req.json_ok THEN
           Respond(r, FailedResponse("JSONDecodeError"))
           /\ UNCHANGED uploaded_image
       ELSE IF ~req.has_image THEN
           Respond(r, NoImageData) /\ UNCHANGED uploaded_image
       ELSE IF ~req.b64_ok THEN
           Respond(r, InvalidBase64) /\ UNCHANGED uploaded_image
       ELSE /\ uploaded_image' = req.image_bytes
            /\ pc' = [pc EXCEPT ![r] = "crop"]
            /\ UNCHANGED <<response, local>>
    /\ UNCHANGED <<detect_vars, request, trace, cropped_image>>

\* line 302: crop_image reads uploaded_image.jpg, writes cropped_image.jpg
Crop(r) ==
    /\ pc[r] = "crop"
    /\ IF ~uploaded_image.readable THEN
           Respond(r, FailedResponse("UnidentifiedImageError"))
           /\ UNCHANGED cropped_image
       ELSE /\ cropped_image' = crop_image(uploaded_image)
            /\ pc' = [pc EXCEPT ![r] = "decode_barcode"]
            /\ UNCHANGED <<response, local>>
    /\ UNCHANGED <<detect_vars, request, trace, uploaded_image>>

\* lines 303-309: BarcodeReader reads cropped_image.jpg
ReadBarcode(r) ==
    /\ pc[r] = "decode_barcode"
    /\ Called(r, "decode_barcode")
    /\ IF ~cropped_image.readable THEN
           Respond(r, FailedResponse("error"))
       ELSE LET barcode_info == BarcodeReader(cropped_image) IN
            IF barcode_info = BarcodeNotDetected
            THEN Respond(r, BarcodeNotDetectedResponse)
            ELSE /\ local' = [local EXCEPT ![r].barcode_info = barcode_info]
                 /\ pc' = [pc EXCEPT ![r] = "fetch_product"]
                 /\ UNCHANGED response
    /\ UNCHANGED <<detect_vars, request, uploaded_image, cropped_image>>

\* line 311: the lookup, and the unpacking of what it returns
Lookup(r) ==
    /\ pc[r] = "fetch_product"
    /\ Called(r, "fetch_product")
    /\ \E answer \in CatalogAnswers :
         LET got == mock_get_ingredients(local[r].barcode_info, answer) IN
         IF IsNone(got) THEN
             Respond(r, FailedResponse("TypeError"))
         ELSE /\ local' = [local EXCEPT ![r].product = got]
              /\ pc' = [pc EXCEPT ![r] = StepAfter("fetch_product")]
              /\ UNCHANGED response
    /\ UNCHANGED <<detect_vars, request, uploaded_image, cropped_image>>

\* line 312
Narrative(r) ==
    /\ pc[r] = "hazard_narrative"
    /\ Called(r, "hazard_narrative")
    /\ \E reply \in LLMReplies :
         local' = [local EXCEPT
                      ![r].gen_openai = identify_harmful_ingredients(reply)]
    /\ pc' = [pc EXCEPT ![r] = StepAfter("hazard_narrative")]
    /\ UNCHANGED <<detect_vars, request, response, uploaded_image,
                   cropped_image>>

\* lines 327-331
Detect(r) ==
    /\ pc[r] = "detect_allergens"
    /\ Called(r, "detect_allergens")
    /\ \E binary \in Bits, broken \in HandlerFaults :
       \E sim \in [NormSet(HandlerAllergens) -> SimilarityValues] :
       \E ratio \in [NormSet(HandlerAllergens)
                       \X NormSet(inverse_transform(binary, 1))
                     -> RatioValues] :
         local' = [local EXCEPT ![r].allergen_detection_result =
                      detect_allergens_from_ingredients(
                          HandlerAllergens, binary, sim, ratio, broken)]
    /\ pc' = [pc EXCEPT ![r] = StepAfter("detect_allergens")]
    /\ UNCHANGED <<detect_vars, request, response, uploaded_image,
                   cropped_image>>

\* line 333 (predict, lines 51-56)
Predict(r) ==
    /\ pc[r] = "predict"
    /\ Called(r, "predict")
    /\ \E answer \in XGAnswers :
         IF answer.raises THEN
             Respond(r, FailedResponse("XGBoostError"))
         ELSE /\ local' = [local EXCEPT ![r].predictions = answer.value]
              /\ pc' = [pc EXCEPT ![r] = StepAfter("predict")]
              /\ UNCHANGED response
    /\ UNCHANGED <<detect_vars, request, uploaded_image, cropped_image>>

\* lines 374-392: build the result; gen_openai["hazard"] and ["long"] are read
Merge(r) ==
    /\ pc[r] = "merge"
    /\ IF /\ CanSubscript(local[r].gen_openai, "hazard")
          /\ CanSubscript(local[r].gen_openai, "long")
       THEN Called(r, "merge") /\ Respond(r, SuccessResponse(local[r]))
       ELSE Respond(r, FailedResponse("KeyError")) /\ UNCHANGED trace
    /\ UNCHANGED <<detect_vars, request, uploaded_image, cropped_image>>

(***************************************************************************)
(* Specifications                                                          *)
(***************************************************************************)
IdleDetect ==
    /\ user_allergens = <<>>
    /\ predicted_binary = [i \in 1..Len(MlbClasses) |-> 0]
    /\ similarity = <<>>
    /\ fuzz_ratio = <<>>
    /\ fault = "none"
    /\ detect_call = NotCalled

\* Two requests arrive; the upload directories hold no image yet.
Init ==
    /\ IdleDetect
    /\ request \in [Reqs -> RequestInputs]
    /\ pc = [r \in Reqs |-> "receive"]
    /\ local = [r \in Reqs |-> InitialLocals]
    /\ response = [r \in Reqs |-> NoResponse]
    /\ trace = [r \in Reqs |-> <<>>]
    /\ uploaded_image = NoFile
    /\ cropped_image = NoFile

Next ==
    \E r \in Reqs :
        \/ Receive(r)
        \/ Crop(r)
        \/ ReadBarcode(r)
        \/ Lookup(r)
        \/ Narrative(r)
        \/ Detect(r)
        \/ Predict(r)
        \/ Merge(r)

Spec == Init /\ [][Next]_vars

\* One call of detect_allergens_from_ingredients, on every user list up to
\* MaxUser and every behaviour of its collaborators; no request is served.
InitDetect ==
    /\ user_allergens \in SeqsUpTo(UserRaw, MaxUser)
    /\ predicted_binary \in Bits
    /\ similarity \in [NormSet(user_allergens) -> SimilarityValues]
    /\ fuzz_ratio \in [NormSet(user_allergens)
                         \X NormSet(inverse_transform(predicted_binary, 1))
                       -> RatioValues]
    /\ fault \in Faults
    /\ detect_call = NotCalled
    /\ request = [r \in Reqs |-> HttpRequest("GET", TRUE, TRUE, TRUE, ImgBlank)]
    /\ pc = [r \in Reqs |-> "done"]
    /\ local = [r \in Reqs |-> InitialLocals]
    /\ response = [r \in Reqs |-> NoResponse]
    /\ trace = [r \in Reqs |-> <<>>]
    /\ uploaded_image = NoFile
    /\ cropped_image = NoFile

NextDetect == CallDetect

SpecDetect == InitDetect /\ [][NextDetect]_vars

(***************************************************************************)
(* Properties of detect_allergens_from_ingredients (under SpecDetect)      *)
(***************************************************************************)
DetectReturned == "pending" \notin DOMAIN detect_call

IsError(result) == "error" \in DOMAIN result

UserSet == {normalize_allergen(user_allergens[i]) : i \in DOMAIN user_allergens}

PredictedSet ==
    {normalize_allergen(MlbClasses[i]) :
        i \in {j \in DOMAIN MlbClasses : predicted_binary[j] = 1}}

\* Some step that the call executes raises: the broken collaborator is one
\* the body calls with these arguments.
SomeStepRaises ==
    \/ fault \in {"join", "tfidf", "embed_text", "hstack", "predict",
                  "inverse_transform"}
    \/ /\ fault \in {"normalize_user", "embed_allergen", "cosine"}
       /\ user_allergens # <<>>
    \/ fault = "normalize_predicted" /\ PredictedSet # {}
    \/ fault = "fuzzy" /\ user_allergens # <<>> /\ PredictedSet # {}

\* C1: every value the function returns has safe = TRUE exactly when
\* detected_allergens is empty; the error variant, which carries no
\* detected_allergens, has safe = FALSE.
C1_SafeIffNothingDetected ==
    DetectReturned =>
        /\ "safe" \in DOMAIN detect_call
        /\ IF IsError(detect_call)
           THEN /\ detect_call.safe = FALSE
                /\ "detected_allergens" \notin DOMAIN detect_call
           ELSE /\ "detected_allergens" \in DOMAIN detect_call
                /\ detect_call.safe = (detect_call.detected_allergens = {})

C1_Witness ==
    /\ DetectReturned
    /\ ~IsError(detect_call)
    /\ detect_call.detected_allergens # {}
    /\ detect_call.safe = FALSE

\* C2: when a step of the call raises, the exception does not leave the
\* function: the call returns an error message with safe = FALSE.
C2_RaiseIsContained ==
    (DetectReturned /\ SomeStepRaises) =>
        /\ "propagated" \notin DOMAIN detect_call
        /\ IsError(detect_call)
        /\ detect_call.error = fault
        /\ detect_call.safe = FALSE

C2_Witness ==
    /\ DetectReturned
    /\ fault = "normalize_user"
    /\ user_allergens # <<>>
    /\ IsError(detect_call)
    /\ detect_call.safe = FALSE

\* C3: when no step fails, every normalized user allergen that equals a
\* normalized predicted label is detected, and the result is not safe,
\* whatever the similarity and the fuzzy ratio are.
C3_ExactMatchAlwaysDetected ==
    (DetectReturned /\ ~SomeStepRaises) =>
        /\ "detected_allergens" \in DOMAIN detect_call
        /\ \A u \in UserSet \cap PredictedSet :
               /\ u \in detect_call.detected_allergens
               /\ detect_call.safe = FALSE

C3_Witness ==
    /\ DetectReturned
    /\ ~SomeStepRaises
    /\ \E u \in UserSet \cap PredictedSet :
           /\ similarity[u] = 0
           /\ \A pair \in DOMAIN fuzz_ratio : fuzz_ratio[pair] = 0
           /\ u \in detect_call.detected_allergens

\* every reordering of a list
Reorderings(xs) ==
    {[i \in DOMAIN xs |-> xs[f[i]]] :
        f \in {g \in [DOMAIN xs -> DOMAIN xs] :
                  \A a, b \in DOMAIN xs : a # b => g[a] # g[b]}}

\* C4: when no step fails, detected_allergens is exactly the union of the
\* user allergens with similarity above 0.8, the predicted labels with a
\* fuzzy ratio above 85 to some user allergen, and the labels that are user
\* allergens; 0.8 and 85 themselves match nothing; the order of the user
\* list does not matter.
C4_DetectedIsTheUnion ==
    (DetectReturned /\ ~SomeStepRaises) =>
        /\ "detected_allergens" \in DOMAIN detect_call
        /\ detect_call.detected_allergens =
               {u \in UserSet : similarity[u] > 800}
               \cup {p \in PredictedSet :
                        \E u \in UserSet : fuzz_ratio[<<u, p>>] > 85}
               \cup (PredictedSet \cap UserSet)
        /\ \A other \in Reorderings(user_allergens) :
               detect_allergens_from_ingredients(
                   other, predicted_binary, similarity, fuzz_ratio, fault)
               = detect_call

C4_Witness ==
    /\ DetectReturned
    /\ ~SomeStepRaises
    /\ Len(user_allergens) = 2
    /\ user_allergens[1] # user_allergens[2]
    /\ \E u \in UserSet :
           similarity[u] = 800 /\ u \notin detect_call.detected_allergens
    /\ \E u \in UserSet :
           similarity[u] = 801 /\ u \in detect_call.detected_allergens
    /\ \E p \in PredictedSet \ UserSet :
           /\ \A u \in UserSet : fuzz_ratio[<<u, p>>] = 85
           /\ p \notin detect_call.detected_allergens
    /\ \E p \in PredictedSet \cap UserSet :
           p \in detect_call.detected_allergens

(***************************************************************************)
(* Properties of upload_base64 (under Spec)                                *)
(***************************************************************************)
LaterSteps == {"fetch_product", "hazard_narrative", "detect_allergens",
               "predict", "merge"}

Last(s) == s[Len(s)]

IsSuccess(resp) == "status" \in DOMAIN resp /\ resp.status = "success"

IsCatchAll(resp) ==
    /\ "error" \in DOMAIN resp
    /\ resp.error = "Failed to decode and save image"

\* C5: a request whose barcode read yields no usable barcode string (none
\* found, or only URLs) ends there; it never goes on to the product lookup
\* or any later step.
C5_NoBarcodeShortCircuits ==
    \A r \in Reqs :
        pc[r] \in LaterSteps =>
            local[r].barcode_info \notin {PyNone, BarcodeNotDetected}

\* C6: a request whose product lookup fails ends with an outcome of its own
\* kind, not the outcome a bad image or an internal error gives, and runs no
\* later step.
C6_ProductNotFoundIsTyped ==
    \A r \in Reqs :
        (Responded(r) /\ trace[r] # <<>> /\ Last(trace[r]) = "fetch_product")
            => ~IsCatchAll(response[r])

\* C7: when allergen detection returned its error variant, the response
\* sent has safe = FALSE and carries the error message.
C7_DetectionFailureIsReported ==
    [][\A r \in Reqs :
          (/\ pc[r] = "merge"
           /\ IsError(local[r].allergen_detection_result)
           /\ pc'[r] = "done"
           /\ IsSuccess(response'[r]))
          => /\ response'[r].safe = FALSE
             /\ "error" \in DOMAIN response'[r]]_vars

\* C8: whatever the LLM call does, the value identify_harmful_ingredients
\* returns is an object with the keys hazard, long and recommend.
C8_NarrativeHasItsShape ==
    \A r \in Reqs :
        "unset" \notin DOMAIN local[r].gen_openai =>
            /\ local[r].gen_openai.type = "object"
            /\ NarrativeKeys \subseteq local[r].gen_openai.keys

IsPrefix(s, t) == Len(s) <= Len(t) /\ SubSeq(t, 1, Len(s)) = s

\* C9 as stated: a request that reaches the merged response made its calls
\* in the order barcode, lookup, allergen detection, health-risk score,
\* hazard narrative, merge.
C9_OrderAsStated ==
    \A r \in Reqs :
        IsSuccess(response[r]) =>
            trace[r] = <<"decode_barcode", "fetch_product",
                         "detect_allergens", "predict", "hazard_narrative",
                         "merge">>

\* C9 amended: the calls of every request are made in the order barcode,
\* lookup, hazard narrative, allergen detection, health-risk score, merge;
\* a request that reaches the merged response made all six.
C9_OrderOfTheHandler ==
    \A r \in Reqs :
        LET order == <<"decode_barcode", "fetch_product", "hazard_narrative",
                       "detect_allergens", "predict", "merge">>
        IN  /\ IsPrefix(trace[r], order)
            /\ IsSuccess(response[r]) => trace[r] = order

C9_Witness ==
    \E r \in Reqs :
        /\ IsSuccess(response[r])
        /\ Len(trace[r]) = 6
        /\ trace[r][3] = "hazard_narrative"
        /\ trace[r][4] = "detect_allergens"

\* C10: with two requests interleaved, each request reads the barcode of the
\* image it uploaded itself, and the code in its response is that barcode.
C10_OwnImageIsDecoded ==
    \A r \in Reqs :
        LET own == BarcodeReader(crop_image(request[r].image_bytes))
        IN  /\ pc[r] \in LaterSteps => local[r].barcode_info = own
            /\ IsSuccess(response[r]) => response[r].code = own

====
